---- MODULE Spec2Model ----
(***************************************************************************)
(* A model of the Risk state machine of src/risk.py and of the           *)
(* combinatorics of src/util.py.                                           *)
(*                                                                         *)
(* One game is one RiskState object graph: a Board of Territory objects,   *)
(* a list of Player objects, the index of the current player and the       *)
(* class of the state object (the phase).  transition() mutates the Board  *)
(* and the Players in place and wraps them in a new state object, so the   *)
(* model keeps one copy of every field and each action is one call of      *)
(* transition() on the state the driver holds.                             *)
(***************************************************************************)
EXTENDS Integers, Sequences, FiniteSets, TLC

(***************************************************************************)
(* Bounds of the exploration.                                              *)
(***************************************************************************)
\* troops on the board, all territories together, beyond which no more are added
MaxBoardTroops == 12
\* reinforcements of each Player object handed to new_game
StartTroops == 3
\* cards held by all players together, beyond which no card is dealt
MaxCards == 1

(***************************************************************************)
(* The maps: what _load_territories and _load_continents read from         *)
(* territories.json and continents.json.  "order" is the order of the      *)
(* territories dict (the order of the file), which every iteration over    *)
(* the board follows; "neighbors" is Territory.neighbors; a continent is   *)
(* its name, its bonus and the names of its territories.                   *)
(***************************************************************************)
\* five territories in two rows, of two and of three
Row ==
    [order |-> <<"A", "B", "C", "D", "E">>,
     neighbors |-> [t \in {"A", "B", "C", "D", "E"} |->
                      CASE t = "A" -> {"B"}
                        [] t = "B" -> {"A"}
                        [] t = "C" -> {"D"}
                        [] t = "D" -> {"C", "E"}
                        [] t = "E" -> {"D"}],
     continents |-> { [name |-> "West", bonus |-> 4, territories |-> {"A", "B"}],
                      [name |-> "East", bonus |-> 2, territories |-> {"C", "D", "E"}] }]

\* six territories no border joins into one: a strait of three, a pair, one alone
Islands ==
    [order |-> <<"A", "B", "C", "D", "E", "F">>,
     neighbors |-> [t \in {"A", "B", "C", "D", "E", "F"} |->
                      CASE t = "A" -> {"B", "C"}
                        [] t = "B" -> {"A"}
                        [] t = "C" -> {"A"}
                        [] t = "D" -> {"E"}
                        [] t = "E" -> {"D"}
                        [] t = "F" -> {}],
     continents |-> { [name |-> "Strait", bonus |-> 2, territories |-> {"A", "B", "C"}],
                      [name |-> "Isles", bonus |-> 2, territories |-> {"D", "E", "F"}] }]

\* three territories in a line, one continent
Path ==
    [order |-> <<"A", "B", "C">>,
     neighbors |-> [t \in {"A", "B", "C"} |->
                      CASE t = "A" -> {"B"}
                        [] t = "B" -> {"A", "C"}
                        [] t = "C" -> {"B"}],
     continents |-> { [name |-> "Land", bonus |-> 1, territories |-> {"A", "B", "C"}] }]

\* Territory.owner of a territory nobody has claimed
None == "None"

\* no call of a function of util.py under way
NoCall == [fn |-> "none"]

\* the names handed to new_game; a Player object is identified by its name
PlayerNames == <<"p1", "p2", "p3">>

Names == {PlayerNames[i] : i \in 1..Len(PlayerNames)}

\* class Cards(Enum)
Cards == {"Infantry", "Cavalry", "Artillery"}

VARIABLES
    world,             \* the map the Board was loaded from
    phase,             \* the class of the state object the driver holds
    owner,             \* Territory.owner, by territory name
    troops,            \* Territory.troops, by territory name
    reinforcements,    \* Player.reinforcements, by player name
    cards,             \* Player.cards, by player name
    players,           \* RiskState.players: the player names, in order
    current_player_i,  \* RiskState.current_player_i, 0-based as in the code
    occupied,          \* AttackState.occupied
    card_turnins,      \* RiskState.card_turnins
    action,            \* the action of the last transition() call
    raised,            \* the exception that call raised, or "none"
    conqueror,         \* the player who has conquered a territory in the
                       \* Attack phase under way, or None: kept for the
                       \* properties, the code has no such field
    clone,             \* the other of the two objects of c = s.copy(), in
                       \* a sequence that is empty before the call
    call               \* a call of a function of util.py: the function,
                       \* its arguments and, once it has returned or
                       \* raised, its result

vars == <<world, phase, owner, troops, reinforcements, cards, players,
          current_player_i, occupied, card_turnins, action, raised, conqueror,
         clone, call>>

\* Board.territories, in order, and their names
TerritoryOrder == world.order

Territories == {TerritoryOrder[i] : i \in 1..Len(TerritoryOrder)}

\* Board.neighbors
neighbors == world.neighbors

\* Board.continents
Continents == world.continents

(***************************************************************************)
(* Helpers on sequences and numbers.                                       *)
(***************************************************************************)
Range(s) == {s[i] : i \in 1..Len(s)}

Min(a, b) == IF a <= b THEN a ELSE b

Max(a, b) == IF a >= b THEN a ELSE b

RECURSIVE SumSeq(_)
SumSeq(s) == IF s = <<>> THEN 0 ELSE Head(s) + SumSeq(Tail(s))

RECURSIVE SumOver(_, _)
SumOver(S, f) ==
    IF S = {} THEN 0
    ELSE LET x == CHOOSE y \in S : TRUE IN f[x] + SumOver(S \ {x}, f)

RECURSIVE Concat(_)
Concat(ss) == IF ss = <<>> THEN <<>> ELSE Head(ss) \o Concat(Tail(ss))

\* the troops on the whole board
BoardTroops(tr) == SumOver(Territories, tr)

\* the exploration stops adding troops at MaxBoardTroops
WithinBounds(tr) == BoardTroops(tr) <= MaxBoardTroops

(***************************************************************************)
(* src/util.py                                                             *)
(***************************************************************************)
RECURSIVE fact(_)
fact(n) == IF n <= 0 THEN 1 ELSE n * fact(n - 1)

\* choose(n, k), where it returns: math.factorial raises ValueError on a
\* negative argument (choose_raises), which no call made by risk.py passes
choose(n, k) ==
    IF k > n THEN 0 ELSE fact(n) \div (fact(k) * fact(n - k))

\* the loop running over range(1, total + 1)
RECURSIVE integer_compositions_to_total(_, _)
integer_compositions_to_total(total, n) ==
    IF n = 1 THEN << <<total>> >>
    ELSE Concat([i \in 1..total |->
                   LET subs == integer_compositions_to_total(total - i, n - 1)
                   IN  [j \in 1..Len(subs) |-> Append(subs[j], i)]])

\* integer_compositions(total, n): the arrays in the order they are yielded.
\* Each array is built by the innermost call and every enclosing call
\* appends its own part, so the outermost loop variable is the LAST entry.
RECURSIVE integer_compositions(_, _)
integer_compositions(total, n) ==
    IF n = 1 THEN << <<total>> >>
    ELSE Concat([i \in 1..(total - 1) |->
                   LET subs == integer_compositions(total - i, n - 1)
                   IN  [j \in 1..Len(subs) |-> Append(subs[j], i)]])

\* itertools.combinations(items, n): the n-tuples in the order yielded
RECURSIVE combinations(_, _)
combinations(items, n) ==
    IF n = 0 THEN << <<>> >>
    ELSE IF Len(items) < n THEN <<>>
    ELSE LET rest == combinations(Tail(items), n - 1)
         IN  [j \in 1..Len(rest) |-> <<Head(items)>> \o rest[j]]
             \o combinations(Tail(items), n)

\* math.factorial(n) raises ValueError when n is negative, and so does
\* choose(n, k) when it reaches a factorial of k < 0 or of n - k < 0
choose_raises(n, k) ==
    IF k > n THEN "none"
    ELSE IF n < 0 \/ k < 0 \/ n - k < 0 THEN "ValueError"
    ELSE "none"

\* what a call comes to: a value returned, None returned, or an exception
Returns(v) == [raised |-> "none", none |-> FALSE, value |-> v]

ReturnsNone == [raised |-> "none", none |-> TRUE, value |-> <<>>]

Raises(e) == [raised |-> e, none |-> FALSE, value |-> <<>>]

\* kth_n_combination(items, n, k) for a list of items and k >= 0
RECURSIVE kth_n_combination(_, _, _)
kth_n_combination(items, n, k) ==
    IF n = 0 THEN Returns(<<>>)
    ELSE LET total_combos == choose(Len(items), n)
         IN  IF k >= total_combos THEN Raises("IndexError")
             ELSE LET combos_without_first == choose(Len(items) - 1, n)
                      combos_with_first == total_combos - combos_without_first
                  IN  IF k < combos_with_first
                      THEN LET rest == kth_n_combination(Tail(items), n - 1, k)
                           IN  IF rest.raised # "none" THEN rest
                               ELSE Returns(<<Head(items)>> \o rest.value)
                      ELSE kth_n_combination(Tail(items), n, k - combos_with_first)

\* one composition for every first part
one_compo_starting_with_i(total, n, i) == 1

num_compos_starting_with_i(total, n, i) ==
    IF n = 1 THEN 1 ELSE choose(total - 1 - i, n - 2)

\* kth_n_integer_composition(total, n, k); the loop over i is the inner
\* operator, and a loop that runs out falls off the end of the function,
\* which returns None; "(i, ) + None" raises TypeError
RECURSIVE kth_n_integer_composition(_, _, _)
kth_n_integer_composition(total, n, k) ==
    LET RECURSIVE from_i(_, _)
        from_i(i, kk) ==
            IF i < 1 THEN ReturnsNone
            ELSE LET items_starting_i == num_compos_starting_with_i(total, n, i)
                 IN  IF kk < items_starting_i
                     THEN LET rest == kth_n_integer_composition(total - i, n - 1, kk)
                          IN  IF rest.raised # "none" THEN rest
                              ELSE IF rest.none THEN Raises("TypeError")
                              ELSE Returns(<<i>> \o rest.value)
                     ELSE from_i(i - 1, kk - items_starting_i)
    IN  IF n = 0 THEN Returns(<<>>) ELSE from_i(total - n + 1, k)

(***************************************************************************)
(* Board and RiskState queries.                                            *)
(***************************************************************************)
\* RiskState.current_player
current_player == players[current_player_i + 1]

\* the turn that never passes on: the index is handed on as it is
same_player_i == current_player_i

\* "(self.current_player_i + 1) % len(self.players)"
next_player_i == (current_player_i + 1) % Len(players)

\* the player looked up at the current index instead of the next
next_player_is_current == current_player

\* RiskState.next_player
next_player == players[next_player_i + 1]

\* Board.territories_owned(player): the territory names in board order
territories_owned(own, p) ==
    SelectSeq(TerritoryOrder, LAMBDA t : own[t] # None /\ own[t] = p)

\* Continent.owner
continent_owner(own, c) ==
    IF Cardinality({own[t] : t \in c.territories}) = 1
    THEN own[CHOOSE t \in c.territories : TRUE]
    ELSE None

\* Board.continents_owned(player)
continents_owned(own, p) ==
    {c \in Continents : continent_owner(own, c) # None /\ continent_owner(own, c) = p}

\* RiskState.calculate_reinforcements(player)
calculate_reinforcements(own, p) ==
    LET terr_contrib == Len(territories_owned(own, p)) \div 3
        cont_contrib == SumOver(continents_owned(own, p),
                                [c \in Continents |-> c.bonus])
    IN  Max(3, terr_contrib + cont_contrib)

(***************************************************************************)
(* The actions (the namedtuples of src/risk.py).                           *)
(***************************************************************************)
PrePlace(t) == [type |-> "PrePlace", territory |-> t]

PreAssign(t) == [type |-> "PreAssign", territory |-> t]

Place(terrs, trps) == [type |-> "Place", territories |-> terrs, troops |-> trps]

Attack(f, t, n) ==
    [type |-> "Attack", from_territory |-> f, to_territory |-> t, troops |-> n]

DontAttack == [type |-> "DontAttack"]

Fortify(f, t, n) ==
    [type |-> "Fortify", from_territory |-> f, to_territory |-> t, troops |-> n]

DontFortify == [type |-> "DontFortify"]

\* the call that made the first state: new_game(players)
NewGame(arg) ==
    [type |-> "new_game", names |-> arg.names, objects |-> arg.objects,
     hands |-> arg.hands]

(***************************************************************************)
(* RiskState.__init__: the construction of the state object a transition   *)
(* returns.  When the constructor raises, the driver keeps the state       *)
(* object it called transition() on, with whatever the call had already    *)
(* mutated.                                                                *)
(***************************************************************************)
Construct(cls, pl, i, occ_new, occ_old) ==
    IF Len(pl) < 1
    THEN /\ raised' = "ValueError"
         /\ occupied' = occ_old
         /\ UNCHANGED <<phase, players, current_player_i>>
    ELSE IF i >= Len(pl)
    THEN /\ raised' = "IndexError"
         /\ occupied' = occ_old
         /\ UNCHANGED <<phase, players, current_player_i>>
    ELSE /\ raised' = "none"
         /\ phase' = cls
         /\ players' = pl
         /\ current_player_i' = i % Len(pl)
         /\ occupied' = occ_new

\* a transition() call that raises before it has mutated anything
Raise(exc) ==
    /\ raised' = exc
    /\ UNCHANGED <<phase, owner, troops, reinforcements, cards, players,
                   current_player_i, occupied>>

(***************************************************************************)
(* PrePlaceState                                                           *)
(***************************************************************************)
PrePlace_available_actions ==
    LET unoccupied_territories ==
            SelectSeq(TerritoryOrder, LAMBDA t : owner[t] = None)
    IN  [j \in 1..Len(unoccupied_territories) |-> PrePlace(unoccupied_territories[j])]

\* the checks PrePlaceState.transition makes before it mutates anything:
\* the exception it raises, or "none"
PrePlace_raises(a) ==
    IF a.type # "PrePlace" THEN "ValueError"
    ELSE IF a.territory \notin Territories THEN "KeyError"
    ELSE IF owner[a.territory] # None THEN "ValueError"
    ELSE "none"

\* all() written where any() belongs
all_unowned(own) == \A t \in Territories : own[t] = None

\* "any(terr.owner is None for terr in self.territories)"
any_unowned(own) == \E t \in Territories : own[t] = None

\* the claim of a territory that costs no reinforcement
PrePlaceTransition_unpaid(a) ==
    /\ phase = "PrePlace"
    /\ action' = a
    /\ UNCHANGED <<world, card_turnins, conqueror>>
    /\ IF PrePlace_raises(a) # "none" THEN Raise(PrePlace_raises(a))
       ELSE /\ owner' = [owner EXCEPT ![a.territory] = current_player]
            /\ troops' = [troops EXCEPT ![a.territory] = @ + 1]
            /\ WithinBounds(troops')
            /\ UNCHANGED <<cards, reinforcements>>
            /\ IF any_unowned(owner')
               THEN Construct("PrePlace", players, next_player_i, FALSE, occupied)
               ELSE Construct("PreAssign", players, next_player_i, FALSE, occupied)

PrePlaceTransition(a) ==
    /\ phase = "PrePlace"
    /\ action' = a
    /\ UNCHANGED <<world, card_turnins, conqueror>>
    /\ IF PrePlace_raises(a) # "none" THEN Raise(PrePlace_raises(a))
       ELSE /\ owner' = [owner EXCEPT ![a.territory] = current_player]
            /\ troops' = [troops EXCEPT ![a.territory] = @ + 1]
            /\ WithinBounds(troops')
            /\ reinforcements' = [reinforcements EXCEPT ![current_player] = @ - 1]
            /\ UNCHANGED cards
            /\ IF any_unowned(owner')
               THEN Construct("PrePlace", players, next_player_i, FALSE, occupied)
               ELSE Construct("PreAssign", players, next_player_i, FALSE, occupied)

(***************************************************************************)
(* PreAssignState                                                          *)
(***************************************************************************)
PreAssign_available_actions ==
    LET owned_terrs == territories_owned(owner, current_player)
    IN  [j \in 1..Len(owned_terrs) |-> PreAssign(owned_terrs[j])]

\* the checks without the comparison of the owner with the current player
PreAssign_raises_any_owner(a) ==
    IF a.type # "PreAssign" THEN "ValueError"
    ELSE IF a.territory \notin Territories THEN "KeyError"
    ELSE IF owner[a.territory] = None THEN "AttributeError"
    ELSE "none"

\* the checks PreAssignState.transition makes before it mutates anything
PreAssign_raises(a) ==
    IF a.type # "PreAssign" THEN "ValueError"
    ELSE IF a.territory \notin Territories THEN "KeyError"
    ELSE IF owner[a.territory] = None THEN "AttributeError"
    ELSE IF owner[a.territory] # current_player THEN "ValueError"
    ELSE "none"

PreAssignTransition(a) ==
    /\ phase = "PreAssign"
    /\ action' = a
    /\ UNCHANGED <<world, card_turnins, conqueror>>
    /\ IF PreAssign_raises(a) # "none" THEN Raise(PreAssign_raises(a))
       ELSE LET re1 == [reinforcements EXCEPT ![current_player] = @ - 1]
            IN  /\ troops' = [troops EXCEPT ![a.territory] = @ + 1]
                /\ WithinBounds(troops')
                /\ UNCHANGED <<owner, cards>>
                /\ IF \E i \in 1..Len(players) : re1[players[i]] # 0
                   THEN /\ reinforcements' = re1
                        /\ Construct("PreAssign", players, next_player_i,
                                     FALSE, occupied)
                   ELSE /\ reinforcements' =
                               [re1 EXCEPT ![next_player] =
                                   @ + calculate_reinforcements(owner, next_player)]
                        /\ Construct("Place", players, 0, FALSE, occupied)

(***************************************************************************)
(* PlaceState                                                              *)
(***************************************************************************)
\* the length with the last n counted in: range(1, max_n + 1)
Place_action_space_len_inclusive ==
    LET num_territories == Len(territories_owned(owner, current_player))
        num_reinforcements == reinforcements[current_player]
    IN  SumSeq([n \in 1..Min(num_territories, num_reinforcements) |->
                  choose(num_territories, n) * choose(num_reinforcements - 1, n - 1)])

\* PlaceState._action_space_len: what len() of the action space reports
Place_action_space_len ==
    LET num_territories == Len(territories_owned(owner, current_player))
        num_reinforcements == reinforcements[current_player]
    IN  SumSeq([n \in 1..(Min(num_territories, num_reinforcements) - 1) |->
                  choose(num_territories, n) * choose(num_reinforcements - 1, n - 1)])

\* PlaceState.available_actions()._iter: the actions in the order yielded
Place_available_actions ==
    LET terrs_owned == territories_owned(owner, current_player)
        reinf == reinforcements[current_player]
        max_n == Min(Len(terrs_owned), reinf)
    IN  Concat([n \in 1..(max_n - 1) |->
                  LET combos == combinations(terrs_owned, n)
                      allocs == integer_compositions(reinf, n)
                  IN  Concat([c \in 1..Len(combos) |->
                                [k \in 1..Len(allocs) |-> Place(combos[c], allocs[k])]])])

\* the loop "for terr, troop in zip(action.territories, action.troops)"
RECURSIVE PlaceTroops(_, _, _)
PlaceTroops(tr, terrs, trps) ==
    IF terrs = <<>> \/ trps = <<>> THEN tr
    ELSE PlaceTroops([tr EXCEPT ![Head(terrs)] = @ + Head(trps)],
                     Tail(terrs), Tail(trps))

\* the checks without the comparison of the two lengths
Place_raises_any_length(a) ==
    LET owned_terrs == Range(territories_owned(owner, current_player))
    IN  IF a.type # "Place" THEN "ValueError"
        ELSE IF \E i \in 1..Len(a.territories) : a.territories[i] \notin owned_terrs
        THEN "ValueError"
        ELSE IF SumSeq(a.troops) # reinforcements[current_player] THEN "ValueError"
        ELSE "none"

\* the checks PlaceState.transition makes before it mutates anything
Place_raises(a) ==
    LET owned_terrs == Range(territories_owned(owner, current_player))
    IN  IF a.type # "Place" THEN "ValueError"
        ELSE IF \E i \in 1..Len(a.territories) : a.territories[i] \notin owned_terrs
        THEN "ValueError"
        ELSE IF SumSeq(a.troops) # reinforcements[current_player] THEN "ValueError"
        ELSE IF Len(a.territories) # Len(a.troops) THEN "ValueError"
        ELSE "none"

PlaceTransition(a) ==
    /\ phase = "Place"
    /\ action' = a
    /\ UNCHANGED <<world, card_turnins>>
    /\ conqueror' = IF Place_raises(a) # "none" THEN conqueror ELSE None
    /\ IF Place_raises(a) # "none" THEN Raise(Place_raises(a))
       ELSE /\ troops' = PlaceTroops(troops, a.territories, a.troops)
            /\ WithinBounds(troops')
            /\ reinforcements' =
                   [reinforcements EXCEPT ![current_player] = @ - SumSeq(a.troops)]
            /\ UNCHANGED <<owner, cards>>
            /\ Construct("Attack", players, current_player_i, FALSE, occupied)

(***************************************************************************)
(* AttackState                                                             *)
(***************************************************************************)
\* random.randint(1, 6)
DieFaces == 1..6

\* the most pairings zip() can make under MaxBoardTroops: the attacker
\* leaves two troops behind, the defender rolls one die per troop, and at
\* least two more territories hold a troop each
MaxPairs == (MaxBoardTroops - 4) \div 2

\* a tie goes to the attacker
attacker_wins_ties(attacker_roll, defender_roll) == attacker_roll >= defender_roll

\* "if attacker_roll > defender_roll"
attacker_wins(attacker_roll, defender_roll) == attacker_roll > defender_roll

\* sorted(rolls, reverse=True): the non-increasing sequences of m faces.
\* zip() reads only the first min(attacker dice, defender dice) entries of
\* each sorted list, and every non-increasing sequence of that length
\* begins some sorted roll, so the rolls are drawn at that length.
SortedRolls ==
    [m \in 0..MaxPairs |->
        {r \in [1..m -> DieFaces] : \A i \in 1..(m - 1) : r[i] >= r[i + 1]}]

\* for m pairings, what "attacker_roll > defender_roll" can come to, pairing
\* by pairing, over all rolls
PairResults ==
    [m \in 0..MaxPairs |->
        {[k \in 1..m |-> attacker_wins(ar[k], dr[k])] :
            ar \in SortedRolls[m], dr \in SortedRolls[m]}]

\* for m pairings, how many of them the attacker can win
PairWins ==
    [m \in 0..MaxPairs |->
        {Cardinality({k \in 1..m : w[k]}) : w \in PairResults[m]}]

\* the loop over zip(attacker_rolls, defender_rolls): each pairing the
\* attacker wins takes a troop from to_territory, each other pairing takes
\* one from from_territory
Combat(tr, f, t, m, wins) ==
    [tr EXCEPT ![t] = @ - wins, ![f] = @ - (m - wins)]

\* len(list(attacker_rolls)) after the loop: zip() takes an attacker roll
\* before it finds the defender's rolls exhausted, and that roll is lost
remaining_rolls(nA, nD) == IF nA > nD THEN nA - nD - 1 ELSE 0

\* the cards of all players together
TotalCards(cs) == SumOver(Names, [p \in Names |-> Len(cs[p])])

\* the troop counts run up to all the troops of the territory
Attack_available_actions_all_troops ==
    LET owned == territories_owned(owner, current_player)
        nbrs(f) == SelectSeq(TerritoryOrder, LAMBDA t : t \in neighbors[f])
    IN  Concat([i \in 1..Len(owned) |->
                  Concat([j \in 1..Len(nbrs(owned[i])) |->
                            IF owner[nbrs(owned[i])[j]] # current_player
                            THEN [n \in 1..Max(0, troops[owned[i]] - 1) |->
                                     Attack(owned[i], nbrs(owned[i])[j], n + 1)]
                            ELSE <<>>])])
        \o <<DontAttack>>

\* AttackState.available_actions: the actions in the order of the list
Attack_available_actions ==
    LET owned == territories_owned(owner, current_player)
        nbrs(f) == SelectSeq(TerritoryOrder, LAMBDA t : t \in neighbors[f])
    IN  Concat([i \in 1..Len(owned) |->
                  Concat([j \in 1..Len(nbrs(owned[i])) |->
                            IF owner[nbrs(owned[i])[j]] # current_player
                            THEN [n \in 1..Max(0, troops[owned[i]] - 2) |->
                                     Attack(owned[i], nbrs(owned[i])[j], n + 1)]
                            ELSE <<>>])])
        \o <<DontAttack>>

\* the checks AttackState.transition makes before it mutates anything
Attack_raises(a) ==
    LET mine == Range(territories_owned(owner, current_player))
    IN  IF a.type \notin {"Attack", "DontAttack"} THEN "ValueError"
        ELSE IF a.type = "DontAttack" THEN "none"
        ELSE IF a.from_territory \notin mine THEN "ValueError"
        ELSE IF a.to_territory \in mine THEN "ValueError"
        ELSE IF a.to_territory \notin neighbors[a.from_territory] THEN "ValueError"
        ELSE IF a.troops < 2 THEN "ValueError"
        ELSE "none"

\* the test without the comparison with the player: every territory is owned
every_territory_owned(own, p) == \A x \in Territories : own[x] # None

\* "all(t.owner == self.current_player for t in self.territories)"
owns_every_territory(own, p) == \A x \in Territories : own[x] = p

\* an Attack the checks let through, from the loop over the rolls on: wins
\* is the number of pairings the attacker wins
AttackResolved(a, wins) ==
    LET f == a.from_territory
        t == a.to_territory
        nA == a.troops - 1
        nD == Max(0, troops[t])
    IN  LET tr1 == Combat(troops, f, t, Min(nA, nD), wins)
            conquered == tr1[t] = 0
            remaining_troops == remaining_rolls(nA, nD) + 1
            absorbed ==
                conquered /\ Len(territories_owned(owner, owner[t])) = 0
            own1 == IF conquered
                    THEN [owner EXCEPT ![t] = current_player]
                    ELSE owner
            tr2 == IF conquered
                   THEN [tr1 EXCEPT ![t] = remaining_troops,
                                    ![f] = @ - remaining_troops]
                   ELSE tr1
            occ1 == occupied \/ conquered
        IN  /\ owner' = own1
            /\ troops' = tr2
            /\ conqueror' = IF conquered THEN current_player ELSE conqueror
            /\ cards' = IF absorbed
                        THEN [cards EXCEPT ![current_player] =
                                 @ \o cards[owner[t]]]
                        ELSE cards
            /\ UNCHANGED reinforcements
            /\ IF owns_every_territory(own1, current_player)
               THEN Construct("Terminal", <<current_player>>, 0, FALSE, occ1)
               ELSE Construct("Attack",
                              SelectSeq(players,
                                  LAMBDA p : \E x \in Territories : own1[x] = p),
                              current_player_i, occ1, occ1)

AttackTransition(a) ==
    /\ phase = "Attack"
    /\ action' = a
    /\ UNCHANGED <<world, card_turnins>>
    /\ IF Attack_raises(a) # "none"
       THEN Raise(Attack_raises(a)) /\ UNCHANGED conqueror
       ELSE IF a.type = "Attack"
       THEN \E wins \in PairWins[Min(a.troops - 1, Max(0, troops[a.to_territory]))] :
               AttackResolved(a, wins)
       ELSE /\ IF occupied
               THEN /\ TotalCards(cards) < MaxCards
                    /\ \E c \in Cards :
                          cards' = [cards EXCEPT ![current_player] = Append(@, c)]
               ELSE UNCHANGED cards
            /\ UNCHANGED <<owner, troops, reinforcements>>
            /\ conqueror' = None
            /\ Construct("Fortify", players, current_player_i, FALSE, occupied)

(***************************************************************************)
(* FortifyState                                                            *)
(***************************************************************************)
\* "dest in terrs_owned": dest is a territory NAME (an entry of
\* Territory.neighbors) and terrs_owned is a set of Territory OBJECTS.  The
\* hashes agree (Territory.__hash__ is hash(name)), so the set compares:
\* str.__eq__ returns NotImplemented and Territory.__eq__ reads other.name of
\* a str, catches the AttributeError and returns False.
name_in_territory_objects(name, objects) == FALSE

Fortify_available_actions ==
    LET terrs_owned == territories_owned(owner, current_player)
        nbrs(f) == SelectSeq(TerritoryOrder, LAMBDA t : t \in neighbors[f])
    IN  Concat([i \in 1..Len(terrs_owned) |->
                  Concat([j \in 1..Len(nbrs(terrs_owned[i])) |->
                            IF name_in_territory_objects(nbrs(terrs_owned[i])[j],
                                                         Range(terrs_owned))
                            THEN [n \in 1..Max(0, troops[terrs_owned[i]] - 2) |->
                                     Fortify(terrs_owned[i], nbrs(terrs_owned[i])[j], n)]
                            ELSE <<>>])])
        \o <<DontFortify>>

\* the checks FortifyState.transition makes before it mutates anything
Fortify_raises(a) ==
    IF a.type \notin {"Fortify", "DontFortify"} THEN "ValueError"
    ELSE IF a.type = "DontFortify" THEN "none"
    ELSE IF a.from_territory \notin Territories \/ a.to_territory \notin Territories
    THEN "KeyError"
    ELSE IF owner[a.from_territory] # current_player \/
            owner[a.to_territory] # current_player
    THEN "ValueError"
    ELSE IF a.troops >= troops[a.from_territory] THEN "ValueError"
    ELSE "none"

\* the transition without the credit of the next player's reinforcements
FortifyTransition_no_credit(a) ==
    /\ phase = "Fortify"
    /\ action' = a
    /\ UNCHANGED <<world, card_turnins, conqueror>>
    /\ IF Fortify_raises(a) # "none" THEN Raise(Fortify_raises(a))
       ELSE /\ troops' =
                  IF a.type = "Fortify"
                  THEN [[troops EXCEPT ![a.from_territory] = @ - a.troops]
                           EXCEPT ![a.to_territory] = @ + a.troops]
                  ELSE troops
            /\ UNCHANGED <<owner, cards, reinforcements>>
            /\ Construct("Place", players, next_player_i, FALSE, occupied)

FortifyTransition(a) ==
    /\ phase = "Fortify"
    /\ action' = a
    /\ UNCHANGED <<world, card_turnins, conqueror>>
    /\ IF Fortify_raises(a) # "none" THEN Raise(Fortify_raises(a))
       ELSE /\ troops' =
                  IF a.type = "Fortify"
                  THEN [[troops EXCEPT ![a.from_territory] = @ - a.troops]
                           EXCEPT ![a.to_territory] = @ + a.troops]
                  ELSE troops
            /\ reinforcements' =
                  [reinforcements EXCEPT ![next_player] =
                      @ + calculate_reinforcements(owner, next_player)]
            /\ UNCHANGED <<owner, cards>>
            /\ Construct("Place", players, next_player_i, FALSE, occupied)

(***************************************************************************)
(* TerminalState                                                           *)
(***************************************************************************)
\* "raise NotImplemented": NotImplemented is no exception, so Python raises
\* a TypeError instead
TerminalTransition(a) ==
    /\ phase = "Terminal"
    /\ action' = a
    /\ UNCHANGED <<world, card_turnins, conqueror>>
    /\ Raise("TypeError")

\* TerminalState.available_actions: the body is a bare "yield", so the
\* method is a generator that yields None once
Terminal_available_actions == <<None>>

\* RiskState.is_terminal and its override in TerminalState
is_terminal == phase = "Terminal"

\* TerminalState.winner
winner == current_player

(***************************************************************************)
(* new_game and the driver.                                                *)
(***************************************************************************)
\* the same without the two players that 40 troops are meant for
initial_reinforcements_per_player(n) == 40 - (5 * n)

\* RiskState.__init__ given names: the reinforcements of each new Player
initial_reinforcements(n) == 40 - (5 * (n - 2))

\* Player.cards of players who hold no card, and of players of whom the
\* second comes to the game with one card
NoCards == [p \in Names |-> <<>>]

SecondHoldsCard == [NoCards EXCEPT ![PlayerNames[2]] = <<"Infantry">>]

\* The games explored: the map on disk and the argument of new_game, which
\* is a list of names or a list of Player objects that all bring StartTroops
\* reinforcements and the cards they hold.  Named players have 40 or 35
\* troops to set up, which MaxBoardTroops cuts short; Player objects play
\* the game through.
NewGameArgs ==
    {[map |-> Row, names |-> SubSeq(PlayerNames, 1, 2), objects |-> FALSE,
      hands |-> NoCards],
     [map |-> Row, names |-> SubSeq(PlayerNames, 1, 2), objects |-> TRUE,
      hands |-> NoCards],
     [map |-> Islands, names |-> SubSeq(PlayerNames, 1, 3), objects |-> FALSE,
      hands |-> NoCards]}

\* two Player objects on the rows, the second of them holding a card
DealtArgs ==
    {[map |-> Row, names |-> SubSeq(PlayerNames, 1, 2), objects |-> TRUE,
      hands |-> SecondHoldsCard]}

\* three players, as Player objects, on the islands
TrioArgs ==
    {[map |-> Islands, names |-> SubSeq(PlayerNames, 1, 3), objects |-> TRUE,
      hands |-> NoCards]}

new_game(arg) ==
    /\ world = arg.map
    /\ phase = "PrePlace"
    /\ owner = [t \in Range(arg.map.order) |-> None]
    /\ troops = [t \in Range(arg.map.order) |-> 0]
    /\ players = arg.names
    /\ reinforcements =
          [p \in Names |->
              IF p \in Range(arg.names)
              THEN IF arg.objects THEN StartTroops
                   ELSE initial_reinforcements(Len(arg.names))
              ELSE 0]
    /\ cards = arg.hands
    /\ current_player_i = 0
    /\ occupied = FALSE
    /\ card_turnins = 0
    /\ action = NewGame(arg)
    /\ raised = "none"
    /\ conqueror = None
    /\ clone = <<>>

Init ==
    /\ \E arg \in NewGameArgs : new_game(arg)
    /\ call = NoCall

(***************************************************************************)
(* copy().  After c = s.copy() the two objects hold equal values, so the   *)
(* variables stand for whichever of the two the transitions are applied    *)
(* to, and clone for the other one.  A transition changes its object in    *)
(* place: what the other object shares with it changes as well.            *)
(***************************************************************************)
MaxCloneSteps == 2

\* a copy whose board and Player objects are those of the original
shallow_copy ==
    [phase |-> phase, owner |-> owner, troops |-> troops,
     reinforcements |-> reinforcements, cards |-> cards, players |-> players,
     current_player_i |-> current_player_i, card_turnins |-> card_turnins,
     shares |-> {"board", "players"}, steps |-> 0]

\* deepcopy(self): every object reachable from the state is copied, the
\* result shares none with the original
copy ==
    [phase |-> phase, owner |-> owner, troops |-> troops,
     reinforcements |-> reinforcements, cards |-> cards, players |-> players,
     current_player_i |-> current_player_i, card_turnins |-> card_turnins,
     shares |-> {}, steps |-> 0]

CopyStep ==
    /\ clone = <<>>
    /\ clone' = <<copy>>
    /\ UNCHANGED <<world, phase, owner, troops, reinforcements, cards, players,
                   current_player_i, occupied, card_turnins, action, raised,
                   conqueror, call>>

\* the other object across a transition: its fields hold what they held,
\* but for the objects it shares
CloneFollows ==
    /\ clone # <<>> => clone[1].steps < MaxCloneSteps
    /\ clone' =
          IF clone = <<>> THEN <<>>
          ELSE LET shared == clone[1].shares
               IN  <<[clone[1] EXCEPT
                        !.owner = IF "board" \in shared THEN owner' ELSE @,
                        !.troops = IF "board" \in shared THEN troops' ELSE @,
                        !.reinforcements =
                            IF "players" \in shared THEN reinforcements' ELSE @,
                        !.cards = IF "players" \in shared THEN cards' ELSE @,
                        !.steps = @ + 1]>>

\* The driver of main.py: while the state is not terminal, it hands
\* transition() an action of the state's available_actions().
PrePlaceStep ==
    /\ \E a \in Range(PrePlace_available_actions) : PrePlaceTransition(a)
    /\ CloneFollows
    /\ UNCHANGED call

PreAssignStep ==
    /\ \E a \in Range(PreAssign_available_actions) : PreAssignTransition(a)
    /\ CloneFollows
    /\ UNCHANGED call

PlaceStep ==
    /\ \E a \in Range(Place_available_actions) : PlaceTransition(a)
    /\ CloneFollows
    /\ UNCHANGED call

AttackStep ==
    /\ \E a \in Range(Attack_available_actions) : AttackTransition(a)
    /\ CloneFollows
    /\ UNCHANGED call

FortifyStep ==
    /\ \E a \in Range(Fortify_available_actions) : FortifyTransition(a)
    /\ CloneFollows
    /\ UNCHANGED call

Next ==
    \/ PrePlaceStep
    \/ PreAssignStep
    \/ PlaceStep
    \/ AttackStep
    \/ FortifyStep

\* two players on the rows, and the setup of three named players
Spec == Init /\ [][Next]_vars

InitTrio ==
    /\ \E arg \in TrioArgs : new_game(arg)
    /\ call = NoCall

\* three players on the islands
Trio == InitTrio /\ [][Next]_vars

InitDealt ==
    /\ \E arg \in DealtArgs : new_game(arg)
    /\ call = NoCall

\* two players, one of whom starts with a card
Dealt == InitDealt /\ [][Next]_vars

(***************************************************************************)
(* The state object's methods, by the class of the object.                 *)
(***************************************************************************)
\* state.available_actions(), as the set of what it yields
available_actions ==
    CASE phase = "PrePlace" -> Range(PrePlace_available_actions)
      [] phase = "PreAssign" -> Range(PreAssign_available_actions)
      [] phase = "Place" -> Range(Place_available_actions)
      [] phase = "Attack" -> Range(Attack_available_actions)
      [] phase = "Fortify" -> Range(Fortify_available_actions)
      [] OTHER -> Range(Terminal_available_actions)

\* what state.transition(a) raises before it mutates anything, or "none"
transition_raises(a) ==
    CASE phase = "PrePlace" -> PrePlace_raises(a)
      [] phase = "PreAssign" -> PreAssign_raises(a)
      [] phase = "Place" -> Place_raises(a)
      [] phase = "Attack" -> Attack_raises(a)
      [] phase = "Fortify" -> Fortify_raises(a)
      [] OTHER -> "TypeError"

(***************************************************************************)
(* The actions a caller may hand to transition(), available or not.        *)
(***************************************************************************)
\* the longest territory list of a Place action handed in
MaxPlaceLen == 2

\* the most troops an action handed in names
MaxActionTroops == 3

PlaceTerritories == UNION {[1..k -> Territories] : k \in 1..MaxPlaceLen}

PlaceAllocations == UNION {[1..k -> 1..MaxActionTroops] : k \in 1..MaxPlaceLen}

PlaceUniverse == {Place(ts, ns) : ts \in PlaceTerritories, ns \in PlaceAllocations}

FortifyUniverse ==
    {Fortify(f, t, n) : f \in Territories, t \in Territories, n \in 0..MaxActionTroops}

ActionUniverse ==
    {PrePlace(t) : t \in Territories}
    \cup {PreAssign(t) : t \in Territories}
    \cup PlaceUniverse
    \cup {Attack(f, t, n) : f \in Territories, t \in Territories, n \in 0..MaxActionTroops}
    \cup FortifyUniverse
    \cup {DontAttack, DontFortify}

(***************************************************************************)
(* A caller that does not stop at what available_actions() of a Fortify    *)
(* state yields, and hands transition() the Fortify actions between two    *)
(* adjacent territories of the current player.                             *)
(***************************************************************************)
FortifyCalls ==
    {a \in FortifyUniverse :
        /\ owner[a.from_territory] = current_player
        /\ owner[a.to_territory] = current_player
        /\ a.to_territory \in neighbors[a.from_territory]
        /\ a.troops >= 1
        /\ a.troops <= troops[a.from_territory] - 2}

FortifyCallStep ==
    /\ \E a \in FortifyCalls : FortifyTransition(a)
    /\ CloneFollows
    /\ UNCHANGED call

NextHanded ==
    \/ Next
    \/ FortifyCallStep

\* two Player objects on the rows
HandedArgs ==
    {[map |-> Row, names |-> SubSeq(PlayerNames, 1, 2), objects |-> TRUE,
      hands |-> NoCards]}

InitHanded ==
    /\ \E arg \in HandedArgs : new_game(arg)
    /\ call = NoCall

\* two players, with Fortify actions handed in
Handed == InitHanded /\ [][NextHanded]_vars

NextCopies ==
    \/ Next
    \/ CopyStep

\* the games of Dealt, in which a caller takes one copy and then drives one
\* of the two objects
Copies == InitDealt /\ [][NextCopies]_vars

(***************************************************************************)
(* A caller that hands AttackState.transition Attack actions that          *)
(* available_actions() does not yield and the checks of the transition let *)
(* through: attacks with 2 troops from a territory that holds 1, on a      *)
(* board where every territory still holds a troop.                        *)
(***************************************************************************)
StrayAttacks ==
    {a \in {Attack(f, t, 2) : f \in Territories, t \in Territories} :
        /\ troops[a.from_territory] = 1
        /\ Attack_raises(a) = "none"}

StrayAttackStep ==
    /\ \A x \in Territories : troops[x] >= 1
    /\ \E a \in StrayAttacks : AttackTransition(a)
    /\ CloneFollows
    /\ UNCHANGED call

NextStrays ==
    \/ Next
    \/ StrayAttackStep

\* two Player objects on the path
StraysArgs ==
    {[map |-> Path, names |-> SubSeq(PlayerNames, 1, 2), objects |-> TRUE,
      hands |-> NoCards]}

InitStrays ==
    /\ \E arg \in StraysArgs : new_game(arg)
    /\ call = NoCall

\* two players, with stray Attack actions handed in
Strays == InitStrays /\ [][NextStrays]_vars

(***************************************************************************)
(* The rolls of one Attack, kept in call: the attack is an action of       *)
(* available_actions(), each random.randint(1, 6) is drawn, and nothing    *)
(* is applied after it.                                                    *)
(***************************************************************************)
MaxDice == 2

\* sorted(rolls, reverse=True)
RECURSIVE sorted_reverse(_)
sorted_reverse(rolls) ==
    IF rolls = <<>> THEN <<>>
    ELSE LET i == CHOOSE j \in 1..Len(rolls) :
                     \A k \in 1..Len(rolls) : rolls[j] >= rolls[k]
         IN  <<rolls[i]>> \o
             sorted_reverse(SubSeq(rolls, 1, i - 1) \o SubSeq(rolls, i + 1, Len(rolls)))

\* the pairings of zip(attacker_rolls, defender_rolls) the attacker wins
zip_wins(attacker_rolls, defender_rolls) ==
    Cardinality({k \in 1..Min(Len(attacker_rolls), Len(defender_rolls)) :
                    attacker_wins(attacker_rolls[k], defender_rolls[k])})

RolledAttackStep ==
    /\ phase = "Attack"
    /\ call = NoCall
    /\ \E a \in Range(Attack_available_actions) :
          /\ a.type = "Attack"
          /\ a.troops - 1 <= MaxDice
          /\ troops[a.to_territory] <= MaxDice
          /\ \E ar \in [1..(a.troops - 1) -> DieFaces],
                dr \in [1..troops[a.to_territory] -> DieFaces] :
                /\ action' = a
                /\ UNCHANGED <<world, card_turnins>>
                /\ AttackResolved(a, zip_wins(sorted_reverse(ar), sorted_reverse(dr)))
                /\ call' = [fn |-> "randint", attacker |-> ar, defender |-> dr]
    /\ CloneFollows

GameStep ==
    /\ call = NoCall
    /\ Next

NextDice ==
    \/ GameStep
    \/ RolledAttackStep

\* two players on the path, with the rolls of one Attack
Dice == InitStrays /\ [][NextDice]_vars

(***************************************************************************)
(* The setup of the games new_game starts from a list of names.            *)
(***************************************************************************)
SetupArgs == {arg \in NewGameArgs : ~arg.objects}

InitSetup ==
    /\ \E arg \in SetupArgs : new_game(arg)
    /\ call = NoCall

NextSetup ==
    \/ PrePlaceStep
    \/ PreAssignStep

Setup == InitSetup /\ [][NextSetup]_vars

(***************************************************************************)
(* Actions.sample(n): Actions.__init__ stores the phase's sample function  *)
(* in the instance, so that function is what actions.sample(n) calls.      *)
(* Each operator is the set of the lists a call can yield.                 *)
(***************************************************************************)
MaxSample == 2

MaxDraws == 3

\* random.sample(population, n): n entries at pairwise distinct positions
random_sample(population, n) ==
    {[j \in 1..n |-> population[pos[j]]] :
        pos \in {p \in [1..n -> 1..Len(population)] :
                    \A i, j \in 1..n : i # j => p[i] # p[j]}}

PrePlace_sample(n) == random_sample(PrePlace_available_actions, n)

PreAssign_sample(n) == random_sample(PreAssign_available_actions, n)

Attack_sample(n) == random_sample(Attack_available_actions, n)

Fortify_sample(n) == random_sample(Fortify_available_actions, n)

\* one pass of the loop of PlaceState's sample: the Place actions that the
\* three random.randint draws can come to
Place_sample_draws ==
    LET territories_owned_ == territories_owned(owner, current_player)
        reinf == reinforcements[current_player]
        max_n == Min(Len(territories_owned_), reinf)
    IN  UNION {{Place(kth_n_combination(territories_owned_, k, combo_i).value,
                      kth_n_integer_composition(reinf, k, alloc_i).value) :
                   combo_i \in 0..(choose(Len(territories_owned_), k) - 1),
                   alloc_i \in 0..(choose(reinf - 1, k - 1) - 1)} :
               k \in 1..max_n}

\* the loop "while len(actions) < n", whose first statement assigns the
\* number of territories drawn to n: the lists yielded by the runs that
\* end within the given number of passes
RECURSIVE Place_sample_runs(_, _, _)
Place_sample_runs(actions, n, draws) ==
    IF Len(actions) >= n THEN {actions}
    ELSE IF draws = 0 THEN {}
    ELSE UNION {Place_sample_runs(IF a \in Range(actions) THEN actions
                                  ELSE Append(actions, a),
                                  Len(a.territories), draws - 1) :
                   a \in Place_sample_draws}

Place_sample(n) == Place_sample_runs(<<>>, n, MaxDraws)

sample(n) ==
    CASE phase = "PrePlace" -> PrePlace_sample(n)
      [] phase = "PreAssign" -> PreAssign_sample(n)
      [] phase = "Place" -> Place_sample(n)
      [] phase = "Attack" -> Attack_sample(n)
      [] phase = "Fortify" -> Fortify_sample(n)
      [] OTHER -> {}

\* len(actions)
actions_len ==
    CASE phase = "PrePlace" -> Len(PrePlace_available_actions)
      [] phase = "PreAssign" -> Len(PreAssign_available_actions)
      [] phase = "Place" -> Place_action_space_len
      [] phase = "Attack" -> Len(Attack_available_actions)
      [] phase = "Fortify" -> Len(Fortify_available_actions)
      [] OTHER -> 0

(***************************************************************************)
(* Calls of the functions of src/util.py on their own: a call is drawn,    *)
(* then the function is applied to its arguments.                          *)
(***************************************************************************)
MaxArg == 5

MaxItems == 4

MaxRank == 7

UtilItems == <<"a", "b", "c", "d", "e", "f">>

Pending(fn, args) == [fn |-> fn, args |-> args, done |-> FALSE]

UtilCalls ==
    {Pending("choose", <<n, k>>) : n \in 0..MaxArg, k \in (-2)..(MaxArg + 1)}
    \cup {Pending("integer_compositions", <<total, n>>) :
             total \in 1..MaxArg, n \in 1..MaxArg}
    \cup {Pending("kth_n_combination", <<SubSeq(UtilItems, 1, len), n, k>>) :
             len \in 0..MaxItems, n \in 0..MaxItems, k \in 0..MaxRank}
    \cup {Pending("kth_n_integer_composition", <<total, n, k>>) :
             total \in 1..MaxArg, n \in 0..MaxArg, k \in 0..MaxRank}

Done(result) ==
    call' = [fn |-> call.fn, args |-> call.args, done |-> TRUE, result |-> result]

GameUntouched ==
    UNCHANGED <<world, phase, owner, troops, reinforcements, cards, players,
                current_player_i, occupied, card_turnins, action, raised,
                conqueror, clone>>

ChooseCall ==
    /\ call.fn = "choose" /\ ~call.done
    /\ LET n == call.args[1]
           k == call.args[2]
       IN  Done(IF choose_raises(n, k) # "none" THEN Raises(choose_raises(n, k))
                ELSE Returns(choose(n, k)))
    /\ GameUntouched

IntegerCompositionsCall ==
    /\ call.fn = "integer_compositions" /\ ~call.done
    /\ Done(Returns(integer_compositions(call.args[1], call.args[2])))
    /\ GameUntouched

KthCombinationCall ==
    /\ call.fn = "kth_n_combination" /\ ~call.done
    /\ Done(kth_n_combination(call.args[1], call.args[2], call.args[3]))
    /\ GameUntouched

KthCompositionCall ==
    /\ call.fn = "kth_n_integer_composition" /\ ~call.done
    /\ Done(kth_n_integer_composition(call.args[1], call.args[2], call.args[3]))
    /\ GameUntouched

InitUtil ==
    /\ \E arg \in HandedArgs : new_game(arg)
    /\ call \in UtilCalls

NextUtil ==
    \/ ChooseCall
    \/ IntegerCompositionsCall
    \/ KthCombinationCall
    \/ KthCompositionCall

Util == InitUtil /\ [][NextUtil]_vars

(***************************************************************************)
(* The phase graph and the end of the game.                                *)
(***************************************************************************)
\* C1: every successful transition follows an edge of the phase graph:
\* PrePlace to PreAssign exactly when every territory is claimed and else to
\* PrePlace; PreAssign to Place exactly when every player's reinforcements
\* are 0 and else to PreAssign; Place to Attack; Attack to Attack, to
\* Fortify only on DontAttack, to Terminal only when the current player owns
\* every territory; Fortify to Place; and no step leaves Terminal.
C1_PhaseGraph ==
    [][/\ phase # "Terminal"
       /\ raised' = "none" =>
            LET cp == current_player
                spent == \A p \in Range(players) :
                            reinforcements[p] - (IF p = cp THEN 1 ELSE 0) = 0
            IN  CASE phase = "PrePlace" ->
                       phase' = IF \A t \in Territories : owner'[t] # None
                                THEN "PreAssign" ELSE "PrePlace"
                  [] phase = "PreAssign" ->
                       phase' = IF spent THEN "Place" ELSE "PreAssign"
                  [] phase = "Place" -> phase' = "Attack"
                  [] phase = "Attack" ->
                       \/ phase' = "Attack"
                       \/ phase' = "Fortify" /\ action'.type = "DontAttack"
                       \/ phase' = "Terminal" /\ \A t \in Territories : owner'[t] = cp
                  [] phase = "Fortify" -> phase' = "Place"
                  [] OTHER -> FALSE]_vars

\* a game that went all the way to Terminal, by a conquest
C1_Witness == phase = "Terminal" /\ action.type = "Attack" /\ raised = "none"

\* C2: a game driven by available actions only terminates: it does not
\* come to a stop, with no action left to draw, anywhere but in a terminal
\* state with exactly one player left
C2_Terminates ==
    (is_terminal \/ available_actions = {}) => (is_terminal /\ Len(players) = 1)

(***************************************************************************)
(* Errors.                                                                 *)
(***************************************************************************)
\* C3: in every phase transition(a) raises for every action a that is not
\* among the state's available actions
C3_OnlyAvailableApplied ==
    \A a \in ActionUniverse :
        a \notin available_actions => transition_raises(a) # "none"

\* C4: a transition() call that raises leaves every owner, every troop
\* count, all reinforcements and cards, the players and the current player
\* as they were
C4_FailureLeavesState ==
    [][raised' # "none" =>
          UNCHANGED <<owner, troops, reinforcements, cards, players,
                      current_player_i>>]_vars

(***************************************************************************)
(* The setup of the game.                                                  *)
(***************************************************************************)
\* C5: new_game with P names returns a PrePlace state whose current player
\* is the first name and whose next player is the second; every player has
\* 40 - 5 * (P - 2) reinforcements, no territory and no continent, and 3 as
\* calculate_reinforcements; the available actions are one PrePlace per
\* territory of the map
C5_NewGame ==
    action.type = "new_game" /\ ~action.objects =>
        /\ phase = "PrePlace"
        /\ raised = "none"
        /\ players = action.names
        /\ current_player = action.names[1]
        /\ next_player = action.names[2]
        /\ \A p \in Range(players) :
              /\ reinforcements[p] = 40 - 5 * (Len(action.names) - 2)
              /\ territories_owned(owner, p) = <<>>
              /\ continents_owned(owner, p) = {}
              /\ calculate_reinforcements(owner, p) = 3
        /\ Len(PrePlace_available_actions) = Cardinality(Territories)
        /\ Range(PrePlace_available_actions) = {PrePlace(t) : t \in Territories}

\* a new game of three named players
C5_Witness == action.type = "new_game" /\ ~action.objects /\ Len(players) = 3

\* C6: a PrePlace transition on an unowned territory gives the territory to
\* the current player with 1 troop, takes 1 reinforcement from that player
\* only, passes the turn to the next player round-robin, leaves one PrePlace
\* action less, and yields PreAssign exactly when every territory has an
\* owner, PrePlace otherwise
C6_PrePlace ==
    [][phase = "PrePlace" /\ raised' = "none" =>
          LET t == action'.territory
              cp == current_player
          IN  /\ action'.type = "PrePlace"
              /\ owner[t] = None
              /\ owner' = [owner EXCEPT ![t] = cp]
              /\ troops' = [troops EXCEPT ![t] = 1]
              /\ reinforcements' = [reinforcements EXCEPT ![cp] = @ - 1]
              /\ cards' = cards
              /\ players' = players
              /\ current_player_i' = (current_player_i + 1) % Len(players)
              /\ Len(PrePlace_available_actions') = Len(PrePlace_available_actions) - 1
              /\ phase' = IF \A x \in Territories : owner'[x] # None
                          THEN "PreAssign" ELSE "PrePlace"]_vars

\* the claim of the last territory, made by the first of two players
C6_Witness ==
    /\ phase = "PreAssign"
    /\ action.type = "PrePlace"
    /\ raised = "none"
    /\ owner[action.territory] = players[1]
    /\ current_player_i = 1
    /\ Len(players) = 2

\* C7: PreAssign is rejected for a territory the current player does not
\* own; otherwise it adds 1 troop to the territory, takes 1 reinforcement
\* from the current player, and yields Place exactly when every player's
\* reinforcements are 0 then, PreAssign with the next player otherwise
C7_PreAssign ==
    [][phase = "PreAssign" =>
          /\ \A t \in Territories :
                owner[t] # current_player => PreAssign_raises(PreAssign(t)) # "none"
          /\ raised' = "none" =>
                LET t == action'.territory
                    cp == current_player
                    spent == \A p \in Range(players) :
                                reinforcements[p] - (IF p = cp THEN 1 ELSE 0) = 0
                IN  /\ action'.type = "PreAssign"
                    /\ owner[t] = cp
                    /\ troops' = [troops EXCEPT ![t] = @ + 1]
                    /\ owner' = owner
                    /\ reinforcements'[cp] = reinforcements[cp] - 1
                    /\ players' = players
                    /\ IF spent THEN phase' = "Place"
                       ELSE /\ phase' = "PreAssign"
                            /\ current_player_i' =
                                  (current_player_i + 1) % Len(players)
                            /\ reinforcements' =
                                  [reinforcements EXCEPT ![cp] = @ - 1]]_vars

\* a PreAssign that left reinforcements to assign, in a state where the
\* player now to move does not own every territory
C7_Witness ==
    /\ phase = "PreAssign"
    /\ action.type = "PreAssign"
    /\ raised = "none"
    /\ \E t \in Territories : owner[t] # current_player

\* C8: in the Place state the last PreAssign produces, the current player is
\* player 0, that player's reinforcements are calculate_reinforcements of
\* that player, and every other player's are 0
C8_FirstPlace ==
    phase = "Place" /\ action.type = "PreAssign" =>
        /\ current_player_i = 0
        /\ reinforcements[players[1]] = calculate_reinforcements(owner, players[1])
        /\ \A p \in Names \ {players[1]} : reinforcements[p] = 0

\* the first Place state of a game
C8_Witness ==
    /\ phase = "Place"
    /\ action.type = "PreAssign"
    /\ reinforcements[current_player] >= 3

(***************************************************************************)
(* The Place phase.                                                        *)
(***************************************************************************)
\* C9: a successful Place adds troops[i] to territories[i] for every i,
\* leaves the other territories' troops and every owner alone, brings the
\* current player's reinforcements to 0 and yields Attack with the same
\* current player; Place is rejected when a territory is not the current
\* player's, when the two lists differ in length, or when the troops do not
\* sum to the player's reinforcements
C9_Place ==
    [][phase = "Place" =>
          /\ \A ts \in PlaceTerritories, ns \in PlaceAllocations :
                (\/ \E i \in 1..Len(ts) : owner[ts[i]] # current_player
                 \/ Len(ts) # Len(ns)
                 \/ SumSeq(ns) # reinforcements[current_player])
                => Place_raises(Place(ts, ns)) # "none"
          /\ raised' = "none" =>
                LET a == action'
                    cp == current_player
                    added(t) == SumSeq([i \in 1..Len(a.territories) |->
                                          IF a.territories[i] = t
                                          THEN a.troops[i] ELSE 0])
                IN  /\ a.type = "Place"
                    /\ troops' = [t \in Territories |-> troops[t] + added(t)]
                    /\ owner' = owner
                    /\ reinforcements' = [reinforcements EXCEPT ![cp] = 0]
                    /\ phase' = "Attack"
                    /\ players' = players
                    /\ current_player_i' = current_player_i]_vars

\* a Place over two territories, in a state where the player had owned more
C9_Witness ==
    /\ phase = "Attack"
    /\ action.type = "Place"
    /\ raised = "none"
    /\ Len(action.territories) = 2
    /\ Len(territories_owned(owner, current_player)) >= 3

\* C10: the actions of a Place state are all the Place actions that choose
\* n of the current player's T territories, for every n from 1 to
\* min(T, R), with a positive number of troops for each that sum to the R
\* reinforcements
C10_PlaceActionSpace ==
    phase = "Place" =>
        LET terrs_owned == territories_owned(owner, current_player)
            R == reinforcements[current_player]
            T == Len(terrs_owned)
            chosen(n) == {[i \in 1..n |-> terrs_owned[f[i]]] :
                             f \in {g \in [1..n -> 1..T] :
                                       \A i \in 1..(n - 1) : g[i] < g[i + 1]}}
            allocated(n) == {al \in [1..n -> 1..R] : SumSeq(al) = R}
        IN  Range(Place_available_actions) =
               UNION {{Place(c, al) : c \in chosen(n), al \in allocated(n)} :
                         n \in 1..Min(T, R)}

\* C11: in a Place state with T owned territories and R reinforcements the
\* length the action space reports is the sum over n from 1 to
\* min(T, R) - 1 of C(T, n) * C(R - 1, n - 1), and it is the number of
\* actions the iteration yields
C11_PlaceLength ==
    phase = "Place" =>
        LET T == Len(territories_owned(owner, current_player))
            R == reinforcements[current_player]
            binomial(n, k) == Cardinality({S \in SUBSET (1..n) : Cardinality(S) = k})
        IN  /\ Place_action_space_len =
                  SumSeq([n \in 1..(Min(T, R) - 1) |->
                            binomial(T, n) * binomial(R - 1, n - 1)])
            /\ Place_action_space_len = Len(Place_available_actions)
            /\ Len(Place_available_actions) = Cardinality(Range(Place_available_actions))

\* a Place state whose action space has actions on one and on two territories
C11_Witness ==
    /\ phase = "Place"
    /\ Min(Len(territories_owned(owner, current_player)),
           reinforcements[current_player]) >= 3
    /\ Place_action_space_len >= 9

(***************************************************************************)
(* The Attack phase.                                                       *)
(***************************************************************************)
\* C12: the actions of an Attack state are one Attack(from, to, t) for every
\* territory from of the current player, every neighbor to of it that the
\* current player does not own and every t from 2 to troops(from) - 1, and
\* one DontAttack, which is always there
C12_AttackActionSpace ==
    phase = "Attack" =>
        LET cp == current_player
            actions == Attack_available_actions
        IN  /\ Range(actions) =
                  UNION {UNION {{Attack(f, t, n) : n \in 2..(troops[f] - 1)} :
                                   t \in {x \in neighbors[f] : owner[x] # cp}} :
                            f \in {x \in Territories : owner[x] = cp}}
                  \cup {DontAttack}
            /\ Len(actions) = Cardinality(Range(actions))

\* an Attack state that offers attacks with two and with three troops
C12_Witness ==
    /\ phase = "Attack"
    /\ \E a \in Range(Attack_available_actions) : a.type = "Attack" /\ a.troops >= 3
    /\ \E t \in Territories :
          owner[t] = current_player /\ neighbors[t] # {} /\
          \A x \in neighbors[t] : owner[x] = current_player

\* C13: an Attack that does not end the game yields an Attack state whose
\* current player is the player who attacked, whether or not it conquered a
\* territory or removed a player from the game
C13_AttackKeepsPlayer ==
    [][/\ phase = "Attack"
       /\ action'.type = "Attack"
       /\ \E t \in Territories : owner'[t] # current_player
       => /\ raised' = "none"
          /\ phase' = "Attack"
          /\ current_player' = current_player]_vars

\* C14: when an Attack conquers the last territory of the defending player,
\* the resulting state has that player's cards added to the attacker's hand
\* and that player taken out of the players, the others in their order
C14_Elimination ==
    [][/\ phase = "Attack"
       /\ action'.type = "Attack"
       /\ raised' = "none"
       /\ owner[action'.to_territory] # current_player
       /\ \A t \in Territories : owner'[t] # owner[action'.to_territory]
       => LET attacker == current_player
              defender == owner[action'.to_territory]
          IN  /\ cards'[attacker] = cards[attacker] \o cards[defender]
              /\ players' = SelectSeq(players, LAMBDA p : p # defender)]_vars

\* C15: an Attack yields a Terminal state exactly when every territory is
\* the attacker's after it; in that state the players are that one player,
\* winner() is that player and owns every territory
C15_Terminal ==
    [][phase = "Attack" /\ action'.type = "Attack" =>
          LET attacker == current_player
          IN  /\ phase' = "Terminal" <=> \A t \in Territories : owner'[t] = attacker
              /\ phase' = "Terminal" =>
                    /\ is_terminal'
                    /\ players' = <<attacker>>
                    /\ winner' = attacker
                    /\ \A t \in Territories : owner'[t] = winner']_vars

\* a game the second player has won
C15_Witness ==
    /\ is_terminal
    /\ Len(players) = 1
    /\ winner = PlayerNames[2]
    /\ \A t \in Territories : owner[t] = winner

(***************************************************************************)
(* The end of the game and of the turn.                                    *)
(***************************************************************************)
\* C16: a Terminal state has no available action, its action space yields
\* nothing, and is_terminal() is true of it; is_terminal() is false of every
\* PrePlace, PreAssign, Place, Attack and Fortify state
C16_TerminalActions ==
    /\ phase = "Terminal" =>
          /\ is_terminal
          /\ Terminal_available_actions = <<>>
          /\ available_actions = {}
    /\ phase \in {"PrePlace", "PreAssign", "Place", "Attack", "Fortify"} =>
          ~is_terminal

\* C17: DontAttack yields a Fortify state with the same current player and
\* the same board; it adds one card to the current player's hand exactly
\* when that player has conquered a territory in this Attack phase, and it
\* changes no other player's hand
C17_DontAttack ==
    [][phase = "Attack" /\ action'.type = "DontAttack" =>
          LET cp == current_player
              hand == cards[cp]
          IN  /\ raised' = "none"
              /\ phase' = "Fortify"
              /\ players' = players
              /\ current_player' = cp
              /\ owner' = owner
              /\ troops' = troops
              /\ \A p \in Names \ {cp} : cards'[p] = cards[p]
              /\ IF conqueror = cp
                 THEN /\ Len(cards'[cp]) = Len(hand) + 1
                      /\ SubSeq(cards'[cp], 1, Len(hand)) = hand
                      /\ cards'[cp][Len(hand) + 1] \in Cards
                 ELSE cards'[cp] = hand]_vars

\* C18: the actions of a Fortify state are one Fortify(from, to, n) for every
\* ordered pair of adjacent territories of the current player and every n
\* from 1 to troops(from) - 2, and DontFortify
C18_FortifyActionSpace ==
    phase = "Fortify" =>
        LET cp == current_player
        IN  Range(Fortify_available_actions) =
               UNION {UNION {{Fortify(f, t, n) : n \in 1..(troops[f] - 2)} :
                                t \in {x \in neighbors[f] : owner[x] = cp}} :
                         f \in {x \in Territories : owner[x] = cp}}
               \cup {DontFortify}

\* C19: Fortify and DontFortify yield a Place state whose current player is
\* the next player in the sequence, wrapping; in it that player's
\* reinforcements are calculate_reinforcements of that player and every
\* other player's are 0; a Fortify moves n troops from from_territory to
\* to_territory and the troops on the board stay as many
C19_Fortify ==
    [][phase = "Fortify" /\ raised' = "none" =>
          LET a == action'
              new == players[((current_player_i + 1) % Len(players)) + 1]
              moved(x) == IF a.type = "Fortify"
                          THEN (IF x = a.to_territory THEN a.troops ELSE 0)
                               - (IF x = a.from_territory THEN a.troops ELSE 0)
                          ELSE 0
          IN  /\ a.type \in {"Fortify", "DontFortify"}
              /\ phase' = "Place"
              /\ players' = players
              /\ current_player' = new
              /\ reinforcements'[new] = calculate_reinforcements(owner', new)
              /\ \A p \in Names \ {new} : reinforcements'[p] = 0
              /\ owner' = owner
              /\ \A x \in Territories : troops'[x] = troops[x] + moved(x)
              /\ BoardTroops(troops') = BoardTroops(troops)]_vars

\* the Place state after a Fortify of two troops or more that ended the turn
\* of the last player
C19_Witness ==
    /\ phase = "Place"
    /\ action.type = "Fortify"
    /\ action.troops >= 2
    /\ raised = "none"
    /\ current_player_i = 0

RECURSIVE binomial(_, _)
binomial(n, k) ==
    IF k = 0 \/ k = n THEN 1 ELSE binomial(n - 1, k - 1) + binomial(n - 1, k)

\* C24: choose(n, k) is the binomial coefficient for n >= 0 and 0 <= k <= n,
\* and returns 0, without failing, when k > n or k < 0
C24_Choose ==
    (call.fn = "choose" /\ call.done) =>
        LET n == call.args[1]
            k == call.args[2]
        IN  /\ (0 <= k /\ k <= n) => call.result = Returns(binomial(n, k))
            /\ (k > n \/ k < 0) => call.result = Returns(0)

\* choose(n, k) of a k between 0 and n has returned
C24_Witness ==
    /\ call.fn = "choose" /\ call.done
    /\ call.args[1] >= 4 /\ call.args[2] = 2
    /\ call.result.raised = "none"

\* the k-tuples of integers from 1 to n
RECURSIVE PositiveTuples(_, _)
PositiveTuples(k, n) ==
    IF k = 0 THEN {<<>>}
    ELSE {Append(c, x) : c \in PositiveTuples(k - 1, n), x \in 1..n}

RECURSIVE TwoToThe(_)
TwoToThe(e) == IF e = 0 THEN 1 ELSE 2 * TwoToThe(e - 1)

\* C25: for n >= 1 and k from 1 to n, integer_compositions(n, k) yields the
\* k-tuples of positive integers that sum to n, each once: binomial(n - 1,
\* k - 1) tuples of length k, and 2^(n - 1) tuples over k = 1..n
C25_Compositions ==
    (call.fn = "integer_compositions" /\ call.done /\ call.args[2] <= call.args[1]) =>
        LET n == call.args[1]
            k == call.args[2]
            yielded == call.result.value
        IN  /\ call.result.raised = "none"
            /\ Range(yielded) = {c \in PositiveTuples(k, n) : SumSeq(c) = n}
            /\ Cardinality(Range(yielded)) = Len(yielded)
            /\ Len(yielded) = binomial(n - 1, k - 1)
            /\ \A j \in 1..Len(yielded) : Len(yielded[j]) = k
            /\ SumSeq([kk \in 1..n |-> Len(integer_compositions(n, kk))])
                  = TwoToThe(n - 1)

\* the compositions of 5 into 3 parts have been yielded
C25_Witness ==
    /\ call.fn = "integer_compositions" /\ call.done
    /\ call.args = <<5, 3>>
    /\ Len(call.result.value) = 6

\* C26: over the ranks from 0 to the number of n-combinations of the items
\* less one, kth_n_combination returns pairwise distinct lists that are
\* together the combinations itertools.combinations yields; over the ranks
\* from 0 to the number of compositions less one, kth_n_integer_composition
\* returns pairwise distinct tuples that are together the compositions
\* integer_compositions yields
C26_Unrank ==
    /\ (call.fn = "kth_n_combination" /\ call.done
           /\ call.args[2] <= Len(call.args[1])) =>
          LET items == call.args[1]
              n == call.args[2]
              ranks == 0..(binomial(Len(items), n) - 1)
              unranked == [r \in ranks |-> kth_n_combination(items, n, r)]
          IN  /\ \A r \in ranks :
                    unranked[r].raised = "none" /\ ~unranked[r].none
              /\ \A r1, r2 \in ranks :
                    r1 # r2 => unranked[r1].value # unranked[r2].value
              /\ {unranked[r].value : r \in ranks} = Range(combinations(items, n))
              /\ call.args[3] \in ranks => call.result = unranked[call.args[3]]
    /\ (call.fn = "kth_n_integer_composition" /\ call.done
           /\ call.args[2] >= 1 /\ call.args[2] <= call.args[1]) =>
          LET total == call.args[1]
              n == call.args[2]
              ranks == 0..(binomial(total - 1, n - 1) - 1)
              unranked == [r \in ranks |-> kth_n_integer_composition(total, n, r)]
          IN  /\ \A r \in ranks :
                    unranked[r].raised = "none" /\ ~unranked[r].none
              /\ \A r1, r2 \in ranks :
                    r1 # r2 => unranked[r1].value # unranked[r2].value
              /\ {unranked[r].value : r \in ranks}
                    = Range(integer_compositions(total, n))
              /\ call.args[3] \in ranks => call.result = unranked[call.args[3]]

\* the last of the six compositions of 5 into 3 parts has been returned
C26_Witness ==
    /\ call.fn = "kth_n_integer_composition" /\ call.done
    /\ call.args = <<5, 3, 5>>
    /\ call.result.raised = "none"
    /\ ~call.result.none
    /\ Len(call.result.value) = 3

\* C27: kth_n_combination and kth_n_integer_composition raise IndexError,
\* and return nothing, when the rank is the number of combinations, or of
\* compositions, or more
C27_RankOutOfRange ==
    /\ (call.fn = "kth_n_combination" /\ call.done
           /\ call.args[3] >= choose(Len(call.args[1]), call.args[2])) =>
          call.result.raised = "IndexError"
    /\ (call.fn = "kth_n_integer_composition" /\ call.done
           /\ call.args[2] >= 1
           /\ call.args[3] >= choose(call.args[1] - 1, call.args[2] - 1)) =>
          call.result.raised = "IndexError"

\* a rank past the last combination has raised IndexError
C27_Witness ==
    /\ call.fn = "kth_n_combination" /\ call.done
    /\ call.args = <<SubSeq(UtilItems, 1, 3), 2, 3>>
    /\ call.result.raised = "IndexError"

(***************************************************************************)
(* Sampling.                                                               *)
(***************************************************************************)
\* C21: in every phase, for every n from 1 to the length of the action
\* space, whatever sample(n) yields is n pairwise distinct actions, each one
\* of the actions the iteration over the action space yields
C21_Sample ==
    \A n \in 1..Min(actions_len, MaxSample) :
        \A yielded \in sample(n) :
            /\ Len(yielded) = n
            /\ Cardinality(Range(yielded)) = n
            /\ Range(yielded) \subseteq available_actions

\* a Place state whose sample(1) can yield an action on one territory
C21_Witness ==
    /\ phase = "Place"
    /\ actions_len >= 2
    /\ \E yielded \in sample(1) : Len(yielded[1].territories) = 1

(***************************************************************************)
(* Invariants of the board and of the player sequence.                     *)
(***************************************************************************)
\* C22: every territory has 0 troops or more, every owned territory has 1
\* troop or more, and a territory has no owner only in a PrePlace state
C22_TroopsAndOwners ==
    \A x \in Territories :
        /\ troops[x] >= 0
        /\ owner[x] # None => troops[x] >= 1
        /\ owner[x] = None => phase = "PrePlace"

\* C23: the player sequence is never empty and current_player_i is an index
\* into it; an Attack that removes an eliminated player does not fail with
\* an index out of the range of the shortened sequence
C23_PlayersAndIndex ==
    /\ Len(players) >= 1
    /\ current_player_i \in 0..(Len(players) - 1)
    /\ action.type = "Attack" => raised # "IndexError"

(***************************************************************************)
(* Combat.                                                                 *)
(***************************************************************************)
\* the k-th largest of the rolls
KthLargest(rolls, k) ==
    CHOOSE v \in DieFaces :
        /\ Cardinality({i \in 1..Len(rolls) : rolls[i] > v}) < k
        /\ Cardinality({i \in 1..Len(rolls) : rolls[i] >= v}) >= k

\* C28: Attack(from, to, t) rolls t - 1 dice for the attacker and troops(to)
\* for the defender; the k-th largest of the one is paired with the k-th
\* largest of the other; a pairing takes one troop from to_territory when
\* the attacker's die is strictly greater and one from from_territory
\* otherwise; dice without a pair take nothing, and no more troops are lost
\* than min(t - 1, troops(to))
C28_Combat ==
    [][(call = NoCall /\ call'.fn = "randint") =>
          LET a == action'
              f == a.from_territory
              t == a.to_territory
              A == call'.attacker
              D == call'.defender
              pairs == Min(a.troops - 1, troops[t])
              lostD == Cardinality({k \in 1..pairs :
                                      KthLargest(A, k) > KthLargest(D, k)})
              lostA == pairs - lostD
          IN  /\ Len(A) = a.troops - 1
              /\ Len(D) = troops[t]
              /\ \A x \in Territories \ {f, t} : troops'[x] = troops[x]
              /\ BoardTroops(troops) - BoardTroops(troops') = lostA + lostD
              /\ lostA + lostD <= Min(a.troops - 1, troops[t])
              /\ IF lostD = troops[t]
                 THEN owner'[t] = owner[f]
                 ELSE /\ owner' = owner
                      /\ troops'[t] = troops[t] - lostD
                      /\ troops'[f] = troops[f] - lostA]_vars

\* two dice against two: the highest dice tie, which the defender wins, and
\* the attacker's second die beats the defender's
C28_Witness ==
    /\ call.fn = "randint"
    /\ call.attacker = <<3, 5>>
    /\ call.defender = <<5, 2>>
    /\ troops[action.from_territory] >= 2
    /\ owner[action.to_territory] # owner[action.from_territory]

\* C29: when an Attack(from, to, t) takes the last troop of to_territory,
\* the territory passes to the attacker and receives the attacker dice left
\* without a pair, t - 1 less the troops of the defender before the combat,
\* plus 1; from_territory gives up as many
C29_Conquest ==
    [][(phase = "Attack" /\ action'.type = "Attack" /\ raised' = "none"
           /\ owner'[action'.to_territory] # owner[action'.to_territory]) =>
          LET a == action'
              f == a.from_territory
              t == a.to_territory
              moved == ((a.troops - 1) - troops[t]) + 1
          IN  /\ owner'[t] = owner[f]
              /\ troops'[t] = moved
              /\ troops'[f] = troops[f] - moved]_vars

\* a conquest with more attacker dice than the defender had troops
C29_Witness ==
    /\ action.type = "Attack"
    /\ raised = "none"
    /\ conqueror = owner[action.to_territory]
    /\ owner[action.to_territory] = owner[action.from_territory]
    /\ troops[action.to_territory] >= 2

(***************************************************************************)
(* The setup.                                                              *)
(***************************************************************************)
\* C30: when the last PrePlace claim yields the PreAssign state, every
\* territory holds 1 troop and every player has the initial reinforcements
\* less the number of territories the player owns; in every PrePlace and
\* PreAssign state the troops on the board and the reinforcements of the
\* players together are the number of players times the initial
\* reinforcements
C30_Setup ==
    LET P == Len(players)
        initial == 40 - (5 * (P - 2))
    IN  /\ phase \in {"PrePlace", "PreAssign"} =>
              BoardTroops(troops) + SumOver(Names, reinforcements) = P * initial
        /\ (phase = "PreAssign" /\ action.type = "PrePlace") =>
              /\ \A x \in Territories : troops[x] = 1
              /\ \A i \in 1..P :
                    reinforcements[players[i]] =
                       initial - Cardinality({x \in Territories : owner[x] = players[i]})

\* the PreAssign state of three players, right after the last claim
C30_Witness ==
    /\ phase = "PreAssign"
    /\ action.type = "PrePlace"
    /\ Len(players) = 3
    /\ \A x \in Territories : owner[x] # None

(***************************************************************************)
(* The order of the compositions.                                          *)
(***************************************************************************)
\* a comes before b when the tuples are compared part by part from the
\* first part on
LexLess(a, b) ==
    \E p \in 1..Len(a) :
        /\ p <= Len(b)
        /\ \A q \in 1..(p - 1) : a[q] = b[q]
        /\ a[p] < b[p]

\* C31: of any two tuples integer_compositions(total, n) yields one right
\* after the other, the earlier one is the smaller when the two are compared
\* part by part from the first part on
C31_Lexicographic ==
    (call.fn = "integer_compositions" /\ call.done /\ call.args[2] <= call.args[1]) =>
        LET yielded == call.result.value
        IN  \A j \in 1..(Len(yielded) - 1) : LexLess(yielded[j], yielded[j + 1])

\* a call that yielded at least two compositions
C31_Witness ==
    /\ call.fn = "integer_compositions" /\ call.done
    /\ call.args = <<3, 2>>
    /\ call.result.value = << <<2, 1>>, <<1, 2>> >>

(***************************************************************************)
(* The actions a state offers, and what transition() does with them.       *)
(***************************************************************************)
\* C32: every state that is not terminal offers at least one action, the
\* Place states of a player who owns a single territory, or who holds as
\* many reinforcements as territories, among them
C32_NoDeadlock ==
    ~is_terminal => available_actions # {}

\* the Place state of a player who owns a single territory
C32_Witness ==
    /\ phase = "Place"
    /\ Len(territories_owned(owner, current_player)) = 1
    /\ reinforcements[current_player] >= 1

\* C33: transition() accepts every action the available actions of a state
\* that is not terminal yield: in every phase and for every outcome of the
\* dice the call raises nothing and returns the next state
C33_AvailableAccepted ==
    [][(~is_terminal /\ action' \in available_actions) =>
          /\ raised' = "none"
          /\ phase' \in {"PrePlace", "PreAssign", "Place", "Attack", "Fortify",
                         "Terminal"}]_vars

\* an available Attack that took a player out of the game and was accepted
C33_Witness ==
    /\ action.type = "Attack"
    /\ raised = "none"
    /\ phase = "Attack"
    /\ Len(players) = 2
    /\ \E p \in Names : p \notin Range(players) /\ reinforcements[p] >= 0
                          /\ \A x \in Territories : owner[x] # p

====
